---- MODULE Spec2Model ----
(***************************************************************************)
(* Network Configuration Generator (generate.py): the validation and       *)
(* rendering pipeline of main(), and the two pure helpers the unit tests   *)
(* call directly (_ipv4_prefix_len and VlanModel).                         *)
(*                                                                         *)
(* Modelling conventions                                                   *)
(*  - an optional value (a key a raw record may omit, args.device) is a    *)
(*    sequence of length 0 (absent / None) or 1 (present);                 *)
(*  - an address string is the sequence of its numeric fields:             *)
(*    "255.255.255.0" is <<255,255,255,0>>, a string that is all digits    *)
(*    ("24") is <<24>>, an IPv6 literal has 8 fields, and a string with no *)
(*    numeric reading ("not-a-mask") is <<>>;                              *)
(*  - a rendered configuration text is the record of the values the        *)
(*    template places in it.                                               *)
(***************************************************************************)
EXTENDS Integers, Sequences, FiniteSets

VARIABLES
    entry,          \* the entry point being run: "main", "_ipv4_prefix_len", "VlanModel"
    arg,            \* the argument of a direct helper call (<<>> for main)
    ret,            \* the helper call's outcome (<<>> while pending, and for main)
    template_map,   \* the module-level dict TEMPLATE_MAP
    raw_devices,    \* what load_inventory returned
    args,           \* parse_args: [device, dry_run]
    templates,      \* the template files present in the templates directory
    pc,             \* main's position
    i,              \* validate_devices: index of the next record (1-based)
    validated,      \* validate_devices: the list built so far
    devices,        \* main: the (possibly filtered) device list
    n,              \* main: index of the device of the current loop iteration
    config,         \* main: the text render_config returned, not yet emitted
    generated,      \* main: the counter
    rendered,       \* the devices render_config was called with, in call order
    stdout,         \* what print() wrote
    dir_created,    \* whether ensure_output_dir ran (os.makedirs)
    files,          \* the output directory: file name -> content
    writes,         \* the file names write_config opened, in call order
    rc,             \* main's return value / the SystemExit code (-1 while running)
    exc             \* the uncaught exception that ended the run ("" when none)

vars == <<entry, arg, ret, template_map, raw_devices, args, templates, pc, i,
          validated, devices, n, config, generated, rendered, stdout,
          dir_created, files, writes, rc, exc>>

-----------------------------------------------------------------------------
(* Bounds of the model *)

MaxDevices == 2

-----------------------------------------------------------------------------
(* Optional values *)

None == <<>>

Some(x) == <<x>>

\* Python truthiness of an optional string: None and "" are falsy.
Truthy(o) == o # None /\ o[1] # ""

-----------------------------------------------------------------------------
(* Program constants *)

TEMPLATE_MAP ==
    [cisco_ios |-> "cisco_base.j2", juniper_junos |-> "juniper_base.j2"]

DEFAULT_DEVICE_TYPE == "cisco_ios"

DEFAULT_DESCRIPTION == "Uplink"

VLAN_ID_MIN == 1

VLAN_ID_MAX == 4094

-----------------------------------------------------------------------------
(* ipaddress: address literals and netmasks, at bit level *)

\* The 8 bits of an octet, most significant first.
OctetBits(o) == [b \in 1..8 |-> (o \div (2 ^ (8 - b))) % 2]

IsIPv4Literal(s) == Len(s) = 4 /\ \A k \in 1..4 : s[k] \in 0..255

IsIPv6Literal(s) == Len(s) = 8 /\ \A k \in 1..8 : s[k] \in 0..65535

\* ipaddress.ip_address(v) does not raise.
ip_address_ok(v) == IsIPv4Literal(v) \/ IsIPv6Literal(v)

\* The 32-bit integer of a dotted-decimal literal, as its bits.
ip_int_bits(s) ==
    OctetBits(s[1]) \o OctetBits(s[2]) \o OctetBits(s[3]) \o OctetBits(s[4])

InvertBits(bits) == [b \in 1..Len(bits) |-> 1 - bits[b]]

\* ipaddress._count_righthand_zero_bits(number, bits)
RECURSIVE count_righthand_zero_bits(_)
count_righthand_zero_bits(bits) ==
    IF Len(bits) = 0 THEN 0
    ELSE IF bits[Len(bits)] = 1 THEN 0
    ELSE 1 + count_righthand_zero_bits(SubSeq(bits, 1, Len(bits) - 1))

\* ipaddress._prefix_from_ip_int: the prefix length of a run of ones followed
\* by zeros, <<>> (ValueError) when the ones are not contiguous.
prefix_from_ip_int(bits) ==
    LET trailing_zeroes == count_righthand_zero_bits(bits)
        prefixlen == Len(bits) - trailing_zeroes
    IN  IF \A b \in 1..prefixlen : bits[b] = 1 THEN Some(prefixlen) ELSE None

\* ipaddress._make_netmask on the text after the "/": a digit string is a
\* prefix length, a dotted-decimal string is tried as a netmask and then as a
\* hostmask; <<>> stands for NetmaskValueError.
make_netmask(mask) ==
    IF Len(mask) = 1
    THEN IF mask[1] \in 0..32 THEN Some(mask[1]) ELSE None
    ELSE IF ~IsIPv4Literal(mask) THEN None
    ELSE LET bits == ip_int_bits(mask)
             asNetmask == prefix_from_ip_int(bits)
         IN  IF asNetmask # None THEN asNetmask
             ELSE prefix_from_ip_int(InvertBits(bits))

\* Mutant: the prefix length is 8 times the number of 255 octets.
_ipv4_prefix_len_ByOctets(mask) ==
    IF make_netmask(mask) = None THEN None
    ELSE Some(8 * Cardinality({k \in 1..Len(mask) : mask[k] = 255}))

\* _ipv4_prefix_len(mask): Some(prefixlen), or None for NetmaskValueError.
_ipv4_prefix_len(mask) == make_netmask(mask)

-----------------------------------------------------------------------------
(* The pydantic models *)

\* Mutant: the upper end of the range is excluded.
vlan_id_range_Exclusive(v) == VLAN_ID_MIN <= v /\ v < VLAN_ID_MAX

\* VlanModel.vlan_id_range: TRUE when v is returned, FALSE when it raises.
vlan_id_range(v) == VLAN_ID_MIN <= v /\ v <= VLAN_ID_MAX

\* DeviceModel.validate_ip
validate_ip(v) == ip_address_ok(v)

\* Mutant: the mask validator also requires a convertible netmask.
validate_mask_Strict(v) == ip_address_ok(v) /\ _ipv4_prefix_len(v) # None

\* DeviceModel.validate_mask
validate_mask(v) == ip_address_ok(v)

\* Mutant: every device type is accepted.
validate_device_type_Any(v) == TRUE

\* DeviceModel.validate_device_type
validate_device_type(v) == v \in DOMAIN template_map

\* The fields of a raw record that fail DeviceModel's validation.
DeviceModelErrors(record) ==
      { f \in {"hostname", "interface", "ip", "mask"} : record[f] = None }
    \cup (IF record.ip # None /\ ~validate_ip(record.ip[1])
          THEN {"ip"} ELSE {})
    \cup (IF record.mask # None /\ ~validate_mask(record.mask[1])
          THEN {"mask"} ELSE {})
    \cup (IF record.device_type # None
             /\ ~validate_device_type(record.device_type[1])
          THEN {"device_type"} ELSE {})
    \cup (IF \E k \in 1..Len(record.vlans) : ~vlan_id_range(record.vlans[k].id)
          THEN {"vlans"} ELSE {})

\* DeviceModel(**record) of a record that validates: defaults filled in.
DeviceModel(record) ==
    [hostname    |-> record.hostname[1],
     interface   |-> record.interface[1],
     ip          |-> record.ip[1],
     mask        |-> record.mask[1],
     device_type |-> IF record.device_type = None
                     THEN DEFAULT_DEVICE_TYPE ELSE record.device_type[1],
     description |-> IF record.description = None
                     THEN DEFAULT_DESCRIPTION ELSE record.description[1],
     vlans       |-> record.vlans]

-----------------------------------------------------------------------------
(* The templates.  templates/cisco_base.j2 and templates/juniper_base.j2 are
   described by the specification only: the Cisco text carries the mask
   verbatim, the Juniper text carries the prefix length the ipv4_prefix_len
   filter computes and the VLAN names in lower case.  A rendering is
   Some(text), or None when the filter raised NetmaskValueError. *)

Lower(s) ==
    CASE s = "DATA" -> "data"
      [] s = "VOICE" -> "voice"
      [] OTHER -> s

cisco_base(device) ==
    Some([template  |-> "cisco_base.j2",
          hostname  |-> device.hostname,
          interface |-> device.interface,
          ip        |-> device.ip,
          mask      |-> Some(device.mask),
          prefixlen |-> None,
          vlans     |-> device.vlans])

juniper_base(device) ==
    LET p == _ipv4_prefix_len(device.mask)
    IN  IF p = None THEN None
        ELSE Some([template  |-> "juniper_base.j2",
                   hostname  |-> device.hostname,
                   interface |-> device.interface,
                   ip        |-> device.ip,
                   mask      |-> None,
                   prefixlen |-> p,
                   vlans     |-> [k \in 1..Len(device.vlans) |->
                                    [id   |-> device.vlans[k].id,
                                     name |-> Lower(device.vlans[k].name)]]])

\* template.render(device=device) of the named template.
template_render(template_name, device) ==
    IF template_name = "cisco_base.j2" THEN cisco_base(device)
    ELSE juniper_base(device)

-----------------------------------------------------------------------------
(* Inputs *)

Hostnames == {"r1", "r2"}

GoodIp == <<10, 0, 0, 1>>

Netmask24 == <<255, 255, 255, 0>>

\* A valid address literal that is no netmask ("10.0.0.5").
AddressMask == <<10, 0, 0, 5>>

Vlan(id) == [id |-> id, name |-> "DATA"]

\* Valid VLAN list with a duplicate id and ids out of numeric order.
GoodVlans == <<Vlan(4094), Vlan(1), Vlan(1)>>

Rec(h, m, dt) ==
    [hostname    |-> Some(h),
     interface   |-> Some("Gi0/1"),
     ip          |-> Some(GoodIp),
     mask        |-> Some(m),
     device_type |-> dt,
     description |-> None,
     vlans       |-> GoodVlans]

ValidRecords ==
    { Rec(h, m, dt) : h \in Hostnames,
                      m \in {Netmask24, AddressMask},
                      dt \in {None, Some("cisco_ios"), Some("juniper_junos")} }

BaseRecord == Rec("r1", Netmask24, Some("cisco_ios"))

\* One record per validation rule, each breaking that rule only.
InvalidRecords ==
    { [BaseRecord EXCEPT !.hostname = None],
      [BaseRecord EXCEPT !.ip = Some(<<999, 999, 999, 999>>)],
      [BaseRecord EXCEPT !.mask = Some(<<>>)],
      [BaseRecord EXCEPT !.device_type = Some("vyos")],
      [BaseRecord EXCEPT !.vlans = <<Vlan(0)>>],
      [BaseRecord EXCEPT !.vlans = <<Vlan(1), Vlan(4095)>>] }

RawRecords == ValidRecords \cup InvalidRecords

Inventories == UNION { [1..len -> RawRecords] : len \in 0..MaxDevices }

\* --device: absent, the empty string, a hostname of the inventory, and a
\* hostname no record has.
DeviceArgs == {None, Some(""), Some("r2"), Some("r3")}

TemplateFiles == {"cisco_base.j2", "juniper_base.j2"}

\* Arguments of the direct calls of _ipv4_prefix_len.
MaskOctets == {0, 128, 192, 224, 240, 248, 252, 254, 255, 5, 10}

MaskArgs ==
    [1..4 -> MaskOctets]
    \cup {<<>>, <<0>>, <<24>>, <<32>>, <<33>>, <<0, 0, 0, 0, 0, 0, 0, 1>>}

\* Arguments of the direct calls of VlanModel(id=...).
VlanSweepMax == 5000

VlanArgs == (-2)..VlanSweepMax

-----------------------------------------------------------------------------
(* Initial states *)

Idle ==
    /\ template_map = TEMPLATE_MAP
    /\ i = 1
    /\ validated = <<>>
    /\ devices = <<>>
    /\ n = 1
    /\ config = None
    /\ generated = 0
    /\ rendered = <<>>
    /\ stdout = <<>>
    /\ dir_created = FALSE
    /\ files = <<>>
    /\ writes = <<>>
    /\ rc = -1
    /\ exc = ""
    /\ ret = None

\* main(argv): the arguments, the inventory file's content and the templates
\* directory are the run's inputs.
InitMain ==
    /\ entry = "main"
    /\ arg = <<>>
    /\ raw_devices \in Inventories
    /\ args \in [device : DeviceArgs, dry_run : BOOLEAN]
    /\ templates \in SUBSET TemplateFiles
    /\ pc = "validate"
    /\ Idle

InitCall(fn, argset) ==
    /\ entry = fn
    /\ arg \in argset
    /\ raw_devices = <<>>
    /\ args = [device |-> None, dry_run |-> TRUE]
    /\ templates = TemplateFiles
    /\ pc = "call"
    /\ Idle

Init ==
    \/ InitMain
    \/ InitCall("_ipv4_prefix_len", MaskArgs)
    \/ InitCall("VlanModel", VlanArgs)

-----------------------------------------------------------------------------
(* Ways a run ends *)

\* return code from main
Return(code) == pc' = "returned" /\ rc' = code /\ exc' = exc

\* sys.exit(code)
SysExit(code) == pc' = "sys_exit" /\ rc' = code /\ exc' = exc

\* an exception nothing catches: the interpreter prints the traceback and
\* exits with status 1
Raise(name) == pc' = "raised" /\ rc' = 1 /\ exc' = name

Ended == pc \in {"returned", "sys_exit", "raised"}

-----------------------------------------------------------------------------
(* validate_devices *)

\* One iteration of the loop whose record validates.
ValidateOk ==
    /\ entry = "main" /\ pc = "validate"
    /\ i <= Len(raw_devices)
    /\ DeviceModelErrors(raw_devices[i]) = {}
    /\ validated' = Append(validated, DeviceModel(raw_devices[i]))
    /\ i' = i + 1
    /\ UNCHANGED <<entry, arg, ret, template_map, raw_devices, args, templates,
                   pc, devices, n, config, generated, rendered, stdout,
                   dir_created, files, writes, rc, exc>>

\* Mutant: the error is logged and the loop goes on to the next record.
ValidateFail_Skip ==
    /\ entry = "main" /\ pc = "validate"
    /\ i <= Len(raw_devices)
    /\ DeviceModelErrors(raw_devices[i]) # {}
    /\ i' = i + 1
    /\ UNCHANGED <<entry, arg, ret, template_map, raw_devices, args, templates,
                   pc, validated, devices, n, config, generated, rendered,
                   stdout, dir_created, files, writes, rc, exc>>

\* One iteration of the loop whose record raises ValidationError.
ValidateFail ==
    /\ entry = "main" /\ pc = "validate"
    /\ i <= Len(raw_devices)
    /\ DeviceModelErrors(raw_devices[i]) # {}
    /\ SysExit(1)
    /\ UNCHANGED <<entry, arg, ret, template_map, raw_devices, args, templates,
                   i, validated, devices, n, config, generated, rendered,
                   stdout, dir_created, files, writes>>

\* The loop is over: main binds devices to the validated list.
ValidateReturn ==
    /\ entry = "main" /\ pc = "validate"
    /\ i > Len(raw_devices)
    /\ devices' = validated
    /\ pc' = "select"
    /\ UNCHANGED <<entry, arg, ret, template_map, raw_devices, args, templates,
                   i, validated, n, config, generated, rendered, stdout,
                   dir_created, files, writes, rc, exc>>

-----------------------------------------------------------------------------
(* main *)

\* [d for d in devices if d.hostname == args.device]
MatchingDevices(devs, hostname) ==
    SelectSeq(devs, LAMBDA d : d.hostname = hostname)

\* if args.device: filter, and return 1 when nothing is left.
SelectDevices ==
    /\ entry = "main" /\ pc = "select"
    /\ IF Truthy(args.device)
       THEN LET selected == MatchingDevices(devices, args.device[1])
            IN  /\ devices' = selected
                /\ IF selected = <<>>
                   THEN Return(1)
                   ELSE pc' = "prepare" /\ UNCHANGED <<rc, exc>>
       ELSE /\ pc' = "prepare"
            /\ UNCHANGED <<devices, rc, exc>>
    /\ UNCHANGED <<entry, arg, ret, template_map, raw_devices, args, templates,
                   i, validated, n, config, generated, rendered, stdout,
                   dir_created, files, writes>>

\* Mutant: the output directory is created in preview mode too.
EnsureOutputDir_Always ==
    /\ entry = "main" /\ pc = "prepare"
    /\ dir_created' = TRUE
    /\ generated' = 0
    /\ n' = 1
    /\ pc' = "loop"
    /\ UNCHANGED <<entry, arg, ret, template_map, raw_devices, args, templates,
                   i, validated, devices, config, rendered, stdout, files,
                   writes, rc, exc>>

\* build_jinja_env; if not args.dry_run: ensure_output_dir; generated = 0.
EnsureOutputDir ==
    /\ entry = "main" /\ pc = "prepare"
    /\ dir_created' = IF args.dry_run THEN dir_created ELSE TRUE
    /\ generated' = 0
    /\ n' = 1
    /\ pc' = "loop"
    /\ UNCHANGED <<entry, arg, ret, template_map, raw_devices, args, templates,
                   i, validated, devices, config, rendered, stdout, files,
                   writes, rc, exc>>

\* Mutant: a device whose template is missing is skipped and the loop goes on.
RenderConfig_SkipMissing ==
    /\ entry = "main" /\ pc = "loop"
    /\ n <= Len(devices)
    /\ LET device == devices[n]
           template_name == template_map[device.device_type]
       IN  /\ rendered' = Append(rendered, device)
           /\ IF template_name \notin templates
              THEN n' = n + 1 /\ UNCHANGED <<config, pc, rc, exc>>
              ELSE LET text == template_render(template_name, device)
                   IN  /\ n' = n
                       /\ IF text = None
                          THEN Raise("NetmaskValueError") /\ config' = config
                          ELSE /\ config' = text
                               /\ pc' = "emit"
                               /\ UNCHANGED <<rc, exc>>
    /\ UNCHANGED <<entry, arg, ret, template_map, raw_devices, args, templates,
                   i, validated, devices, generated, stdout, dir_created,
                   files, writes>>

\* render_config(jinja_env, devices[n]): the template name is looked up, the
\* template is loaded (sys.exit(1) on TemplateNotFound) and rendered.
RenderConfig ==
    /\ entry = "main" /\ pc = "loop"
    /\ n <= Len(devices)
    /\ LET device == devices[n]
       IN  /\ rendered' = Append(rendered, device)
           /\ IF device.device_type \notin DOMAIN template_map
              THEN Raise("KeyError") /\ config' = config
              ELSE LET template_name == template_map[device.device_type]
                   IN  IF template_name \notin templates
                       THEN SysExit(1) /\ config' = config
                       ELSE LET text == template_render(template_name, device)
                            IN  IF text = None
                                THEN Raise("NetmaskValueError")
                                     /\ config' = config
                                ELSE /\ config' = text
                                     /\ pc' = "emit"
                                     /\ UNCHANGED <<rc, exc>>
    /\ UNCHANGED <<entry, arg, ret, template_map, raw_devices, args, templates,
                   i, validated, devices, n, generated, stdout, dir_created,
                   files, writes>>

\* The banner line of preview mode.
Banner(device) ==
    [hostname |-> device.hostname, device_type |-> device.device_type]

\* if args.dry_run: the four print calls; generated += 1.
PrintConfig ==
    /\ entry = "main" /\ pc = "emit"
    /\ args.dry_run
    /\ stdout' = Append(stdout, [banner |-> Banner(devices[n]),
                                 text   |-> config[1]])
    /\ generated' = generated + 1
    /\ n' = n + 1
    /\ config' = None
    /\ pc' = "loop"
    /\ UNCHANGED <<entry, arg, ret, template_map, raw_devices, args, templates,
                   i, validated, devices, rendered, dir_created, files,
                   writes, rc, exc>>

\* os.path.join(output_dir, f"{hostname}.cfg"), relative to output_dir
CfgName(hostname) == hostname \o ".cfg"

\* open(filename, "w"); fh.write(config)
WriteFile(fs, name, data) ==
    [f \in DOMAIN fs \cup {name} |-> IF f = name THEN data ELSE fs[f]]

\* else: write_config(args.output_dir, device.hostname, config);
\* generated += 1.  open() raises when the directory is missing.
WriteConfig ==
    /\ entry = "main" /\ pc = "emit"
    /\ ~args.dry_run
    /\ IF dir_created
       THEN /\ files' = WriteFile(files, CfgName(devices[n].hostname), config[1])
            /\ writes' = Append(writes, CfgName(devices[n].hostname))
            /\ generated' = generated + 1
            /\ n' = n + 1
            /\ config' = None
            /\ pc' = "loop"
            /\ UNCHANGED <<rc, exc>>
       ELSE /\ Raise("FileNotFoundError")
            /\ UNCHANGED <<files, writes, generated, n, config>>
    /\ UNCHANGED <<entry, arg, ret, template_map, raw_devices, args, templates,
                   i, validated, devices, rendered, stdout, dir_created>>

\* The loop is over: the count is logged and main returns 0.
Finish ==
    /\ entry = "main" /\ pc = "loop"
    /\ n > Len(devices)
    /\ Return(0)
    /\ UNCHANGED <<entry, arg, ret, template_map, raw_devices, args, templates,
                   i, validated, devices, n, config, generated, rendered,
                   stdout, dir_created, files, writes>>

-----------------------------------------------------------------------------
(* Direct calls of the helpers *)

\* generate._ipv4_prefix_len(arg)
CallPrefixLen ==
    /\ entry = "_ipv4_prefix_len" /\ pc = "call"
    /\ LET r == _ipv4_prefix_len(arg)
       IN  IF r = None
           THEN Raise("NetmaskValueError") /\ ret' = ret
           ELSE Return(0) /\ ret' = r
    /\ UNCHANGED <<entry, arg, template_map, raw_devices, args, templates, i,
                   validated, devices, n, config, generated, rendered, stdout,
                   dir_created, files, writes>>

\* generate.VlanModel(id=arg, name=...)
CallVlanModel ==
    /\ entry = "VlanModel" /\ pc = "call"
    /\ IF vlan_id_range(arg)
       THEN Return(0) /\ ret' = Some(arg)
       ELSE Raise("ValidationError") /\ ret' = ret
    /\ UNCHANGED <<entry, arg, template_map, raw_devices, args, templates, i,
                   validated, devices, n, config, generated, rendered, stdout,
                   dir_created, files, writes>>

-----------------------------------------------------------------------------

Next ==
    \/ ValidateOk
    \/ ValidateFail
    \/ ValidateReturn
    \/ SelectDevices
    \/ EnsureOutputDir
    \/ RenderConfig
    \/ PrintConfig
    \/ WriteConfig
    \/ Finish
    \/ CallPrefixLen
    \/ CallVlanModel

Spec == Init /\ [][Next]_vars

-----------------------------------------------------------------------------
(* Vocabulary of the properties *)

NoOutput ==
    /\ rendered = <<>>
    /\ stdout = <<>>
    /\ ~dir_created
    /\ files = <<>>
    /\ writes = <<>>

InvalidIndices ==
    { k \in 1..Len(raw_devices) : DeviceModelErrors(raw_devices[k]) # {} }

Least(S) == CHOOSE k \in S : \A j \in S : k <= j

\* validate_devices went through the whole inventory without an error.
InventoryValidated == i > Len(raw_devices)

\* The text the renderer produces for a device.
TextOf(device) == template_render(TEMPLATE_MAP[device.device_type], device)[1]

\* The content of the output directory after the first k devices of devs were
\* written one after the other.
RECURSIVE FilesAfter(_, _)
FilesAfter(devs, k) ==
    IF k = 0 THEN <<>>
    ELSE LET before == FilesAfter(devs, k - 1)
             name == CfgName(devs[k].hostname)
         IN  [f \in DOMAIN before \cup {name} |->
                IF f = name THEN TextOf(devs[k]) ELSE before[f]]

\* Octet j (1..4) of the dotted-decimal mask of k leading one-bits.
NetmaskOctet(k, j) ==
    IF k >= 8 * j THEN 255
    ELSE IF k <= 8 * (j - 1) THEN 0
    ELSE 256 - 2 ^ (8 * j - k)

NetmaskOfLength(k) == [j \in 1..4 |-> NetmaskOctet(k, j)]

HostmaskOfLength(k) == [j \in 1..4 |-> 255 - NetmaskOctet(k, j)]

\* A dotted-decimal literal that is neither a netmask nor a hostmask.
NotAMask(m) ==
    \A k \in 0..32 : m # NetmaskOfLength(k) /\ m # HostmaskOfLength(k)

-----------------------------------------------------------------------------
(* C1 *)

\* C1: fail-fast validation precedes all output.  In a run of main whose
\* inventory holds at least one record that fails validation, the run never
\* gets past validate_devices: it ends by sys.exit with a non-zero status at
\* the first invalid record in input order, exactly the records before it
\* validated, and nothing is rendered, printed, created or written, whatever
\* the hostname filter and the preview flag.
C1_FailFastBeforeOutput ==
    LET invalid == InvalidIndices
    IN  (entry = "main" /\ invalid # {}) =>
            /\ pc \in {"validate", "sys_exit"}
            /\ i <= Least(invalid)
            /\ Len(validated) = i - 1
            /\ NoOutput
            /\ pc = "sys_exit" => (rc # 0 /\ i = Least(invalid))

\* A persist-mode run stopped at an invalid second record although the filter
\* names the hostname of the valid first record only.
C1_Witness ==
    /\ entry = "main" /\ pc = "sys_exit"
    /\ Len(raw_devices) = 2 /\ i = 2
    /\ args.device = Some("r2") /\ ~args.dry_run
    /\ validated[1].hostname = "r2"
    /\ raw_devices[2].hostname = Some("r1")

-----------------------------------------------------------------------------
(* C2 *)

\* C2: one output file per device.  When main has returned 0 in persist mode
\* with no hostname filter, the output directory holds exactly as many files
\* as the inventory has (validated) devices, and for each device the file
\* "<hostname>.cfg" exists and contains the rendering of that device.
C2_OneFilePerDevice ==
    (/\ entry = "main" /\ pc = "returned" /\ rc = 0
     /\ ~args.dry_run /\ args.device = None) =>
        /\ Cardinality(DOMAIN files) = Len(validated)
        /\ \A k \in 1..Len(validated) :
              /\ CfgName(validated[k].hostname) \in DOMAIN files
              /\ files[CfgName(validated[k].hostname)] = TextOf(validated[k])

-----------------------------------------------------------------------------
(* C3 *)

\* A hostname filter was given on the command line, the whole inventory
\* validated, and no validated device has that hostname.
FilterMatchesNothing ==
    /\ entry = "main"
    /\ args.device # None
    /\ InventoryValidated
    /\ MatchingDevices(validated, args.device[1]) = <<>>

\* C3: a filter with no match is a clean user error.  Whenever a hostname
\* filter is supplied (any string) and no validated device has exactly that
\* hostname, nothing is ever rendered, printed, created or written, and the
\* run ends only by main returning a non-zero status (no sys.exit, no
\* exception).
C3_NoMatchIsUserError ==
    FilterMatchesNothing =>
        /\ NoOutput
        /\ Ended => (pc = "returned" /\ rc # 0)

-----------------------------------------------------------------------------
(* C4 *)

\* C4: the filter selects exactly the matching devices.  When a hostname
\* filter h is supplied and the whole inventory validates, the devices
\* rendered are, in input order, devices of the inventory whose hostname
\* equals h and no others, what is printed or written is theirs, and after a
\* successful run the devices rendered are exactly the subsequence of the
\* inventory with hostname h and the count equals its length.
C4_FilterSelectsExactly ==
    (entry = "main" /\ args.device # None /\ InventoryValidated) =>
        LET h == args.device[1]
            expected == MatchingDevices(validated, h)
        IN  /\ Len(rendered) <= Len(expected)
            /\ rendered = SubSeq(expected, 1, Len(rendered))
            /\ \A k \in 1..Len(stdout) : stdout[k].banner.hostname = h
            /\ \A k \in 1..Len(writes) : writes[k] = CfgName(h)
            /\ (pc = "returned" /\ rc = 0) =>
                  (rendered = expected /\ generated = Len(expected))

-----------------------------------------------------------------------------
(* C5 *)

\* C5: preview mode leaves the file system unchanged.  In every run of main
\* with --dry-run, at every point of the run and however it ends, the output
\* directory has not been created and no file has been written; standard
\* output holds, for each device processed so far and in order, a banner with
\* its hostname and device type followed by its rendered text, and after a
\* successful run that is every selected device.
C5_PreviewWritesNoFiles ==
    (entry = "main" /\ args.dry_run) =>
        /\ ~dir_created
        /\ files = <<>>
        /\ writes = <<>>
        /\ Len(stdout) = generated
        /\ \A k \in 1..Len(stdout) :
              /\ stdout[k].banner = [hostname    |-> devices[k].hostname,
                                     device_type |-> devices[k].device_type]
              /\ stdout[k].text = TextOf(devices[k])
        /\ (pc = "returned" /\ rc = 0) => Len(stdout) = Len(devices)

\* A successful preview of two devices of different types, unfiltered.
C5_Witness ==
    /\ entry = "main" /\ args.dry_run /\ args.device = None
    /\ pc = "returned" /\ rc = 0
    /\ Len(stdout) = 2
    /\ stdout[1].banner.device_type = "cisco_ios"
    /\ stdout[2].banner.device_type = "juniper_junos"

-----------------------------------------------------------------------------
(* C6 *)

VlanIdsOf(vlans) == [k \in 1..Len(vlans) |-> vlans[k].id]

\* C6: VLAN id range.  A direct VlanModel(id=v) call returns the record if
\* and only if 1 <= v <= 4094 and raises ValidationError otherwise.  In a run
\* of main, a record with a VLAN id outside 1..4094 is never validated, so
\* every VLAN of every validated and of every rendered device has an id in
\* 1..4094; a validated device keeps the VLAN list of its record as it is,
\* duplicates and order included.
C6_VlanIdRange ==
    /\ (entry = "VlanModel" /\ Ended) =>
          /\ (pc = "returned" /\ ret = Some(arg)) <=> (1 <= arg /\ arg <= 4094)
          /\ (pc = "raised" /\ exc = "ValidationError")
                <=> ~(1 <= arg /\ arg <= 4094)
    /\ entry = "main" =>
          /\ \A k \in 1..Len(raw_devices) :
                (\E j \in 1..Len(raw_devices[k].vlans) :
                    raw_devices[k].vlans[j].id \notin 1..4094)
                => Len(validated) < k
          /\ \A k \in 1..Len(validated) :
                /\ validated[k].vlans = raw_devices[k].vlans
                /\ \A j \in 1..Len(validated[k].vlans) :
                      validated[k].vlans[j].id \in 1..4094
          /\ \A k \in 1..Len(rendered) :
                /\ \A j \in 1..Len(rendered[k].vlans) :
                      rendered[k].vlans[j].id \in 1..4094
                /\ \E r \in 1..Len(raw_devices) :
                      VlanIdsOf(rendered[k].vlans)
                         = VlanIdsOf(raw_devices[r].vlans)

\* The upper boundary: VlanModel(id=4094) returned.
C6_Witness ==
    /\ entry = "VlanModel" /\ arg = 4094
    /\ pc = "returned" /\ ret = Some(4094)

-----------------------------------------------------------------------------
(* C7 *)

\* C7: mask-to-prefix conversion.  For every k in 0..32, a direct call of
\* _ipv4_prefix_len on the dotted-decimal mask of k leading one-bits followed
\* by 32-k zero-bits returns exactly k.
C7_MaskToPrefix ==
    (entry = "_ipv4_prefix_len" /\ Ended) =>
        \A k \in 0..32 :
            arg = NetmaskOfLength(k) => (pc = "returned" /\ ret = Some(k))

\* _ipv4_prefix_len("255.255.255.252") returned 30.
C7_Witness ==
    /\ entry = "_ipv4_prefix_len" /\ arg = <<255, 255, 255, 252>>
    /\ pc = "returned" /\ ret = Some(30)

-----------------------------------------------------------------------------
(* C8 *)

\* C8: device-type domain.  TEMPLATE_MAP keeps its two entries throughout.
\* Every validated device has a device_type that is a key of it: cisco_ios
\* when the record omits device_type, the record's own value otherwise; a
\* record with any other value is never validated and nothing is rendered in
\* a run whose inventory holds one.  Every device handed to render_config has
\* a device_type in the mapping, so the lookup never raises KeyError.
C8_DeviceTypeDomain ==
    /\ template_map = TEMPLATE_MAP
    /\ entry = "main" =>
          /\ \A k \in 1..Len(validated) :
                /\ validated[k].device_type \in {"cisco_ios", "juniper_junos"}
                /\ validated[k].device_type =
                      (IF raw_devices[k].device_type = None THEN "cisco_ios"
                       ELSE raw_devices[k].device_type[1])
          /\ \A k \in 1..Len(raw_devices) :
                (/\ raw_devices[k].device_type # None
                 /\ raw_devices[k].device_type[1]
                       \notin {"cisco_ios", "juniper_junos"})
                => (Len(validated) < k /\ rendered = <<>>)
          /\ \A k \in 1..Len(rendered) :
                rendered[k].device_type \in DOMAIN template_map
          /\ exc # "KeyError"

\* A record without device_type was rendered as cisco_ios.
C8_Witness ==
    /\ entry = "main" /\ pc = "emit"
    /\ raw_devices[1].device_type = None
    /\ rendered = <<validated[1]>>
    /\ rendered[1].device_type = "cisco_ios"
    /\ config # None /\ config[1].template = "cisco_base.j2"

-----------------------------------------------------------------------------
(* C9 *)

\* A selected Juniper device whose mask is an address literal but no mask.
JuniperWithoutMask(device) ==
    device.device_type = "juniper_junos" /\ NotAMask(device.mask)

\* C9: validation does not guarantee that a mask is convertible.  A record
\* whose mask is a valid address literal but no netmask is never the record
\* validate_devices stops at.  A run ends with an uncaught exception only in
\* render_config, with NetmaskValueError, on a juniper_junos device with such
\* a mask: its status is not 0 and nothing was printed or written for that
\* device.  No such device is ever emitted, so no run that selects one
\* returns 0.  A cisco_ios device is emitted whatever its mask, and its text
\* carries the mask of the record verbatim.
C9_MaskNotConvertible ==
    entry = "main" =>
        /\ (pc = "sys_exit" /\ rendered = <<>>) =>
              ~(/\ raw_devices[i].mask # None
                /\ IsIPv4Literal(raw_devices[i].mask[1])
                /\ NotAMask(raw_devices[i].mask[1]))
        /\ pc = "raised" =>
              /\ exc = "NetmaskValueError" /\ rc # 0
              /\ JuniperWithoutMask(devices[n])
              /\ rendered[Len(rendered)] = devices[n]
              /\ generated = n - 1
              /\ Len(stdout) + Len(writes) = n - 1
        /\ \A k \in 1..generated : ~JuniperWithoutMask(devices[k])
        /\ pc = "emit" =>
              /\ ~JuniperWithoutMask(devices[n])
              /\ devices[n].device_type = "cisco_ios" =>
                    config[1].mask = Some(devices[n].mask)
        /\ (pc = "returned" /\ rc = 0) =>
              \A k \in 1..Len(devices) : ~JuniperWithoutMask(devices[k])
        /\ \A k \in 1..Len(stdout) :
              devices[k].device_type = "cisco_ios" =>
                 stdout[k].text.mask = Some(devices[k].mask)
        /\ (~args.dry_run /\ generated > 0
              /\ devices[generated].device_type = "cisco_ios") =>
              files[CfgName(devices[generated].hostname)].mask
                 = Some(devices[generated].mask)

\* Mask "10.0.0.5" on two records of one inventory: the cisco_ios one was
\* printed with the mask verbatim, the juniper_junos one then ended the run.
C9_Witness ==
    /\ entry = "main" /\ pc = "raised" /\ exc = "NetmaskValueError"
    /\ n = 2 /\ generated = 1 /\ Len(stdout) = 1
    /\ devices[1].device_type = "cisco_ios"
    /\ devices[1].mask = AddressMask
    /\ stdout[1].text.mask = Some(AddressMask)
    /\ devices[2].device_type = "juniper_junos"
    /\ devices[2].mask = AddressMask

-----------------------------------------------------------------------------
(* C10 *)

\* C10: in-order processing with no rollback.  The devices handed to
\* render_config are a prefix of the selected devices in inventory order, and
\* at most one of them has not been emitted yet: a device is rendered only
\* after every device before it was printed or written.  In persist mode the
\* files opened are those of the devices emitted, in order, and the output
\* directory holds exactly what writing them one after the other leaves.
\* When render_config ends the run at the k-th selected device, the status is
\* not 0, k-1 devices were emitted, and in persist mode the directory holds
\* what the writes of devices 1..k-1 left and nothing of devices k..N.
C10_InOrderNoRollback ==
    entry = "main" =>
        /\ rendered = SubSeq(devices, 1, Len(rendered))
        /\ Len(rendered) \in {generated, generated + 1}
        /\ Len(stdout) + Len(writes) = generated
        /\ pc = "emit" => (Len(rendered) = generated + 1 /\ n = generated + 1)
        /\ pc = "loop" => (Len(rendered) = generated /\ n = generated + 1)
        /\ ~args.dry_run =>
              /\ stdout = <<>>
              /\ writes = [k \in 1..generated |-> CfgName(devices[k].hostname)]
              /\ files = FilesAfter(devices, generated)
        /\ (pc \in {"sys_exit", "raised"} /\ rendered # <<>>) =>
              /\ rc # 0
              /\ Len(rendered) = generated + 1
              /\ n = Len(rendered)

\* Persist mode, template of the second device missing: sys.exit after the
\* first device's file was written, and no other file.
C10_Witness ==
    /\ entry = "main" /\ ~args.dry_run
    /\ pc = "sys_exit" /\ rc = 1
    /\ Len(rendered) = 2 /\ generated = 1
    /\ TEMPLATE_MAP[devices[2].device_type] \notin templates
    /\ devices[1].hostname # devices[2].hostname
    /\ DOMAIN files = {CfgName(devices[1].hostname)}
    /\ files[CfgName(devices[1].hostname)] = TextOf(devices[1])

====
